---- MODULE Spec2Model ----
(***************************************************************************)
(* Customer-churn pipeline: the feature-aggregation engine                 *)
(* (churn_pipeline/features.py), the train/test splitter                   *)
(* (churn_pipeline/trainer.py) and the drift statistics                    *)
(* (churn_pipeline/monitoring.py), modelled as state machines.             *)
(*                                                                         *)
(* Timestamps are integers in milliseconds since the epoch (the unit       *)
(* clean_event_log converts from).  Each component has its own             *)
(* specification: Spec (build_user_features), SpecSplit (the splitter),    *)
(* SpecPerf (performance_drift) and SpecDrift (compute_data_drift_report). *)
(* The event log is a set of rows: rows are told apart by their content,   *)
(* and the aggregates modelled do not depend on the order of equal         *)
(* timestamps.                                                             *)
(***************************************************************************)
EXTENDS Integers, Sequences, FiniteSets, TLC

VARIABLES
    pc,               \* position of the running operation
    events,           \* the cleaned event log handed to build_user_features
    feature_config,   \* FeatureConfig
    pending,          \* groupby("userId") groups not yet visited, in key order
    feature_rows,     \* feature_rows: the snapshots appended so far
    feature_df,       \* the table build_user_features returns / the splitter reads
    split_config,     \* SplitConfig plus TrainingConfig.random_state
    train_df,         \* rows of the train table
    test_df,          \* rows of the test table
    split_call,       \* arguments of the last train_test_split call
    baseline_metrics, \* performance_drift: baseline metric values by name
    current_metrics,  \* performance_drift: current metric values by name
    degrade_threshold,\* performance_drift: threshold, in hundredths
    deltas,           \* performance_drift: the returned mapping
    baseline,         \* compute_data_drift_report: baseline table, by column
    current,          \* compute_data_drift_report: current table, by column
    feature_columns,  \* compute_data_drift_report: requested columns, if given
    psi_threshold,    \* in units of 1/PsiScale
    ks_threshold,     \* in hundredths
    report,           \* the DriftReport, or the raised error
    artifacts,        \* train: the files written under artifacts_dir
    request,          \* ModelService.predict: the batch of events received
    pipeline,         \* ModelService.pipeline: the fitted pipeline loaded at startup
    response          \* ModelService.predict: the response, or the error raised

vars == <<pc, events, feature_config, pending, feature_rows, feature_df,
          split_config, train_df, test_df, split_call,
          baseline_metrics, current_metrics, degrade_threshold, deltas,
          baseline, current, feature_columns, psi_threshold, ks_threshold,
          report, artifacts, request, pipeline, response>>

featVars == <<events, feature_config, pending, feature_rows, feature_df>>
splitVars == <<split_config, train_df, test_df, split_call>>
perfVars == <<baseline_metrics, current_metrics, degrade_threshold, deltas>>
driftVars == <<baseline, current, feature_columns, psi_threshold, ks_threshold,
               report>>
appVars == <<artifacts, request, pipeline, response>>

----------------------------------------------------------------------------
(* Bounds and value domains                                                *)

MaxEvents == 3

DayMs == 86400000

CHURN_EVENT == "Cancellation Confirmation"

UserOrder == <<"u1", "u2">>
Users == {UserOrder[i] : i \in 1..Len(UserOrder)}
Times == {0, 600000, 1200000, DayMs + 600000}
Sessions == {1, 2}
Pages == {"NextSong", CHURN_EVENT}

EventUniverse ==
    [userId : Users, ts : Times, sessionId : Sessions, page : Pages]

RECURSIVE LogsUpTo(_)
LogsUpTo(k) ==
    IF k = 0 THEN {{}}
    ELSE LET p == LogsUpTo(k - 1)
         IN  p \cup {s \cup {e} : s \in p, e \in EventUniverse}

EventLogs == LogsUpTo(MaxEvents)

FeatureConfigs ==
    [lookback_days : {0, 1},
     min_events_per_user : {0, 1, 2},
     min_sessions_per_user : {0, 1, 2}]

----------------------------------------------------------------------------
(* Helpers of build_user_features                                          *)

SetMax(S) == CHOOSE x \in S : \A y \in S : y <= x
SetMin(S) == CHOOSE x \in S : \A y \in S : x <= y

\* user_events.sort_values("ts"): the rows in ascending timestamp order
RECURSIVE SortByTs(_)
SortByTs(S) ==
    IF S = {} THEN <<>>
    ELSE LET e == CHOOSE x \in S : \A y \in S : x.ts <= y.ts
         IN  <<e>> \o SortByTs(S \ {e})

SelectSeqSet(s) == {s[i] : i \in 1..Len(s)}

\* every userId a log of the model can hold, in sorted order
KeyOrder == <<"u1", "u2", "u3">>

\* events.groupby("userId"): the distinct keys in sorted order
GroupKeys(log) ==
    SelectSeq(KeyOrder, LAMBDA u : \E e \in log : e.userId = u)

\* mutant: the group is not restricted to the user's own rows
UserEvents_wholeLog(log, u) == log

UserEvents(log, u) == {e \in log : e.userId = u}

\* mutant: only the user's last event is tested for the churn page
Churned_lastEventOnly(ue) ==
    \E e \in ue : e.page = CHURN_EVENT /\ \A y \in ue : y.ts <= e.ts

\* churn_mask.any()
Churned(ue) == \E e \in ue : e.page = CHURN_EVENT

\* mutant: .iloc[-1], the last churn row instead of the first
CutoffTs_lastChurnRow(ue) ==
    LET sorted == SortByTs(ue)
        churnRows == SelectSeq(sorted, LAMBDA e : e.page = CHURN_EVENT)
    IN  IF Churned(ue) THEN churnRows[Len(churnRows)].ts
        ELSE SetMax({e.ts : e \in ue})

\* cutoff_ts: the first churn row of the sorted frame, else the last timestamp
CutoffTs(ue) ==
    LET sorted == SortByTs(ue)
        churnRows == SelectSeq(sorted, LAMBDA e : e.page = CHURN_EVENT)
    IN  IF Churned(ue) THEN churnRows[1].ts
        ELSE SetMax({e.ts : e \in ue})

\* mutant: <= keeps the events at the cancellation instant
CutoffFilter_inclusive(ue, cutoff) == {e \in ue : e.ts <= cutoff}

\* user_events[user_events["ts"] < cutoff_ts], applied only when churned
CutoffFilter(ue, cutoff) == {e \in ue : e.ts < cutoff}

\* mutant: > drops the events exactly at window_start
LookbackFilter_exclusive(ue, cutoff, lookback_days) ==
    IF lookback_days # 0
    THEN {e \in ue : e.ts > cutoff - lookback_days * DayMs}
    ELSE ue

\* user_events[user_events["ts"] >= window_start], applied when lookback_days is truthy
LookbackFilter(ue, cutoff, lookback_days) ==
    IF lookback_days # 0
    THEN {e \in ue : e.ts >= cutoff - lookback_days * DayMs}
    ELSE ue

\* mutant: the rows at and after the cancellation are not cut off
WorkingSubset_noCutoff(ue, cfg) ==
    LookbackFilter(ue, CutoffTs(ue), cfg.lookback_days)

\* the working subset a snapshot is computed from
WorkingSubset(ue, cfg) ==
    LET cutoff == CutoffTs(ue)
        cut == IF Churned(ue) THEN CutoffFilter(ue, cutoff) ELSE ue
    IN  LookbackFilter(cut, cutoff, cfg.lookback_days)

\* mutant: the rows are counted instead of the distinct sessionId values
NUnique_rowCount(ue) == Cardinality(ue)

\* user_events["sessionId"].nunique()
NUnique(ue) == Cardinality({e.sessionId : e \in ue})

\* mutant: the session guard is skipped
PassesThresholds_eventsOnly(w, cfg) ==
    ~(Cardinality(w) < cfg.min_events_per_user)

\* the two `continue` guards
PassesThresholds(w, cfg) ==
    /\ ~(Cardinality(w) < cfg.min_events_per_user)
    /\ ~(NUnique(w) < cfg.min_sessions_per_user)

Snapshot(u, ue, cfg) ==
    LET w == WorkingSubset(ue, cfg)
    IN  [userId |-> u,
         label_ts |-> CutoffTs(ue),
         churned |-> IF Churned(ue) THEN 1 ELSE 0,
         num_events |-> Cardinality(w),
         num_sessions |-> NUnique(w),
         num_songs |-> Cardinality({e \in w : e.page = "NextSong"}),
         user_events |-> w]

\* feature_df.sort_values("label_ts"): any order ascending in label_ts
IsSortedByLabel(s) ==
    \A i \in 1..Len(s) - 1 : s[i].label_ts <= s[i + 1].label_ts

Perms(rows) ==
    LET S == SelectSeqSet(rows)
        n == Len(rows)
    IN  {p \in [1..n -> S] : \A i, j \in 1..n : i # j => p[i] # p[j]}

\* mutant: the frame is returned in groupby order
SortValuesLabelTs_unsorted(rows) == {rows}

SortValuesLabelTs(rows) == {p \in Perms(rows) : IsSortedByLabel(p)}

----------------------------------------------------------------------------
(* build_user_features                                                     *)

NoCall == [called |-> FALSE]

InitSplitIdle ==
    /\ split_config = "none"
    /\ train_df = <<>>
    /\ test_df = <<>>
    /\ split_call = NoCall

InitPerfIdle ==
    /\ baseline_metrics = <<>>
    /\ current_metrics = <<>>
    /\ degrade_threshold = 0
    /\ deltas = <<>>

InitDriftIdle ==
    /\ baseline = <<>>
    /\ current = <<>>
    /\ feature_columns = <<>>
    /\ psi_threshold = 0
    /\ ks_threshold = 0
    /\ report = <<>>

NoResponse == [sent |-> FALSE]

InitAppIdle ==
    /\ artifacts = {}
    /\ request = {}
    /\ pipeline = "none"
    /\ response = NoResponse

Init ==
    /\ pc = "loop"
    /\ events \in EventLogs
    /\ feature_config \in FeatureConfigs
    /\ pending = GroupKeys(events)
    /\ feature_rows = <<>>
    /\ feature_df = <<>>
    /\ InitSplitIdle
    /\ InitPerfIdle
    /\ InitDriftIdle
    /\ InitAppIdle

\* one iteration of `for user_id, user_events in events.groupby("userId")`
GroupStep ==
    /\ pc = "loop"
    /\ pending # <<>>
    /\ LET u == Head(pending)
           ue == UserEvents(events, u)
           w == WorkingSubset(ue, feature_config)
       IN  feature_rows' =
               IF PassesThresholds(w, feature_config)
               THEN Append(feature_rows, Snapshot(u, ue, feature_config))
               ELSE feature_rows
    /\ pending' = Tail(pending)
    /\ UNCHANGED <<pc, events, feature_config, feature_df>>
    /\ UNCHANGED splitVars
    /\ UNCHANGED perfVars
    /\ UNCHANGED driftVars
    /\ UNCHANGED appVars

\* pd.DataFrame(feature_rows), set_index, sort_values, return
BuildReturn ==
    /\ pc = "loop"
    /\ pending = <<>>
    /\ feature_df' \in (IF feature_rows = <<>> THEN {<<>>}
                        ELSE SortValuesLabelTs(feature_rows))
    /\ pc' = "built"
    /\ UNCHANGED <<events, feature_config, pending, feature_rows>>
    /\ UNCHANGED splitVars
    /\ UNCHANGED perfVars
    /\ UNCHANGED driftVars
    /\ UNCHANGED appVars

Next == GroupStep \/ BuildReturn

Spec == Init /\ [][Next]_vars

----------------------------------------------------------------------------
(* DatasetSplitter: _temporal_split and _stratified_split (trainer.py)     *)

MaxRows == 4

RowIds == <<"r1", "r2", "r3", "r4", "r5", "r6">>

\* non-decreasing label_ts sequences of length n
RECURSIVE SortedLabels(_)
SortedLabels(n) ==
    IF n = 0 THEN {<<>>}
    ELSE {Append(s, t) : s \in SortedLabels(n - 1), t \in Times} \cap
         {q \in [1..n -> Times] : \A i \in 1..n - 1 : q[i] <= q[i + 1]}

\* the tables build_user_features can return: unique userId, ascending
\* label_ts, churned in {0, 1}; non-empty, as train() rejects an empty one
FeatureTables ==
    UNION {
        {[i \in 1..n |-> [userId |-> RowIds[i], label_ts |-> ls[i],
                          churned |-> ch[i], num_events |-> 2]] :
            ls \in SortedLabels(n), ch \in [1..n -> {0, 1}]}
        : n \in 1..MaxRows}

\* SplitConfig, with test_ratio in percent, and TrainingConfig.random_state
SplitConfigs ==
    [method : {"temporal", "stratified"},
     test_ratio : {20, 50},
     min_train_users : {0, 1, 2},
     temporal_holdout_days : {0, 1, 14},
     random_state : {0, 42}]

\* feature_df[feature_df["label_ts"] < cutoff]
TemporalTrain(df, cutoff) == SelectSeq(df, LAMBDA r : r.label_ts < cutoff)

\* mutant: > loses the rows exactly at the cutoff
TemporalTest_exclusive(df, cutoff) == SelectSeq(df, LAMBDA r : r.label_ts > cutoff)

\* feature_df[feature_df["label_ts"] >= cutoff]
TemporalTest(df, cutoff) == SelectSeq(df, LAMBDA r : r.label_ts >= cutoff)

\* mutant: the holdout is added to the latest label instead of subtracted
TemporalCutoff_added(df, cfg) ==
    SetMax({df[i].label_ts : i \in 1..Len(df)}) + cfg.temporal_holdout_days * DayMs

\* feature_df["label_ts"].max() - pd.Timedelta(days=holdout_days)
TemporalCutoff(df, cfg) ==
    SetMax({df[i].label_ts : i \in 1..Len(df)}) - cfg.temporal_holdout_days * DayMs

\* mutant: the fallback is taken only when both conditions hold
NeedsFallback_both(tr, te, cfg) ==
    Len(tr) < cfg.min_train_users /\ Len(te) = 0

\* len(train_df) < min_train_users or len(test_df) == 0
NeedsFallback(tr, te, cfg) ==
    Len(tr) < cfg.min_train_users \/ Len(te) = 0

\* ceil(test_size * n_samples), test_size in percent
CeilPct(pct, n) == (pct * n + 99) \div 100

ClassCount(df, c) == Cardinality({i \in 1..Len(df) : df[i].churned = c})
Classes(df) == {df[i].churned : i \in 1..Len(df)}

\* train_test_split(index, test_size, random_state, stratify): the index
\* sets it can return for some shuffle, or raised when it rejects the input.
\* Per class the train part gets floor(count * n_train / n) rows, the rows
\* left over going to the classes with the largest remainders.
TrainTestSplit(df, pct) ==
    LET n == Len(df)
        n_test == CeilPct(pct, n)
        n_train == n - n_test
        cls == Classes(df)
        fl(c) == (ClassCount(df, c) * n_train) \div n
        rem(c) == (ClassCount(df, c) * n_train) % n
        okCounts(k) ==
            /\ \A c \in cls : k[c] \in {fl(c), fl(c) + 1}
            /\ \A c \in cls : rem(c) = 0 => k[c] = fl(c)
            /\ \A a, b \in cls : (k[a] > fl(a) /\ k[b] = fl(b)) => rem(a) >= rem(b)
        trainSets ==
            {T \in SUBSET (1..n) :
                /\ Cardinality(T) = n_train
                /\ okCounts([c \in cls |->
                       Cardinality({i \in T : df[i].churned = c})])}
    IN  IF \/ n_train = 0
           \/ \E c \in cls : ClassCount(df, c) < 2
           \/ n_train < Cardinality(cls)
           \/ n_test < Cardinality(cls)
        THEN {[raised |-> TRUE]}
        ELSE {[raised |-> FALSE, train_idx |-> T, test_idx |-> (1..n) \ T] :
                 T \in trainSets}

\* feature_df.loc[idx]
Loc(df, idx) ==
    LET keep == SelectSeq([i \in 1..Len(df) |-> i], LAMBDA i : i \in idx)
    IN  [j \in 1..Len(keep) |-> df[keep[j]]]

\* the arguments _stratified_split hands to train_test_split
SplitCall(df, test_ratio, seed) ==
    [called |-> TRUE,
     index |-> [i \in 1..Len(df) |-> df[i].userId],
     test_size |-> test_ratio,
     random_state |-> seed,
     stratify |-> [i \in 1..Len(df) |-> df[i].churned]]

\* mutant: the fallback splits with a fixed seed
StratifiedArgs_fixedSeed(cfg) == [test_ratio |-> cfg.test_ratio, seed |-> 0]

\* config.split_config.test_ratio, config.random_state
StratifiedArgs(cfg) == [test_ratio |-> cfg.test_ratio, seed |-> cfg.random_state]

\* _stratified_split(feature_df, test_ratio, seed): the next values of
\* pc, train_df, test_df and split_call
_stratified_split(df, test_ratio, seed) ==
    /\ split_call' = SplitCall(df, test_ratio, seed)
    /\ \E out \in TrainTestSplit(df, test_ratio) :
           IF out.raised
           THEN /\ pc' = "raised"
                /\ UNCHANGED <<train_df, test_df>>
           ELSE /\ pc' = "split"
                /\ train_df' = Loc(df, out.train_idx)
                /\ test_df' = Loc(df, out.test_idx)

InitFeatureIdle ==
    /\ events = {}
    /\ feature_config = "none"
    /\ pending = <<>>
    /\ feature_rows = <<>>

InitSplit ==
    /\ pc = "features"
    /\ feature_df \in FeatureTables
    /\ split_config \in SplitConfigs
    /\ train_df = <<>>
    /\ test_df = <<>>
    /\ split_call = NoCall
    /\ InitFeatureIdle
    /\ InitPerfIdle
    /\ InitDriftIdle
    /\ InitAppIdle

\* train(): method == "temporal" -> _temporal_split(feature_df, config)
_temporal_split ==
    /\ pc = "features"
    /\ split_config.method = "temporal"
    /\ LET cutoff == TemporalCutoff(feature_df, split_config)
           tr == TemporalTrain(feature_df, cutoff)
           te == TemporalTest(feature_df, cutoff)
           args == StratifiedArgs(split_config)
       IN  IF NeedsFallback(tr, te, split_config)
           THEN _stratified_split(feature_df, args.test_ratio, args.seed)
           ELSE /\ train_df' = tr
                /\ test_df' = te
                /\ pc' = "split"
                /\ UNCHANGED split_call
    /\ UNCHANGED <<split_config>>
    /\ UNCHANGED featVars
    /\ UNCHANGED perfVars
    /\ UNCHANGED driftVars
    /\ UNCHANGED appVars

\* train(): any other method -> _stratified_split(feature_df, test_ratio, random_state)
TrainStratified ==
    /\ pc = "features"
    /\ split_config.method # "temporal"
    /\ _stratified_split(feature_df, split_config.test_ratio,
                           split_config.random_state)
    /\ UNCHANGED <<split_config>>
    /\ UNCHANGED featVars
    /\ UNCHANGED perfVars
    /\ UNCHANGED driftVars
    /\ UNCHANGED appVars

NextSplit == _temporal_split \/ TrainStratified

SpecSplit == InitSplit /\ [][NextSplit]_vars

----------------------------------------------------------------------------
(* DriftAnalyzer: performance_drift (monitoring.py)                        *)
(*                                                                         *)
(* A float is [nan |-> TRUE] or [nan |-> FALSE, v |-> hundredths]; a delta *)
(* is [nan |-> TRUE] or the exact fraction [nan |-> FALSE, num, den] with  *)
(* den > 0.                                                                *)

NaN == [nan |-> TRUE]
Num(x) == [nan |-> FALSE, v |-> x]

MetricKeys == {"f1", "roc_auc"}
MetricValues == {NaN} \cup {Num(x) : x \in {-80, 0, 65, 72, 80, 88}}
MetricDicts == UNION {[K -> MetricValues] : K \in SUBSET MetricKeys}
Thresholds == {-10, 0, 10, 25}

Abs(x) == IF x < 0 THEN -x ELSE x

\* (current_value - baseline_value) / abs(baseline_value), baseline_value # 0
RelativeDelta(b, c) ==
    IF b.nan \/ c.nan THEN NaN
    ELSE [nan |-> FALSE, num |-> c.v - b.v, den |-> Abs(b.v)]

\* the deltas dictionary before needs_retrain is stored
MetricDeltas(base, cur) ==
    [m \in DOMAIN base \cap DOMAIN cur |->
        IF (~base[m].nan) /\ base[m].v = 0 THEN NaN
        ELSE RelativeDelta(base[m], cur[m])]

\* mutant: the threshold is used with its sign
Degraded_signed(value, threshold) ==
    (~value.nan) /\ value.num * 100 < (-threshold) * value.den

\* value < -abs(degrade_threshold); a comparison with NaN is false
Degraded(value, threshold) ==
    (~value.nan) /\ value.num * 100 < (-Abs(threshold)) * value.den

\* any(value < -abs(degrade_threshold) for the metric deltas)
NeedsRetrain(d, threshold) == \E m \in DOMAIN d : Degraded(d[m], threshold)

InitFeatSplitIdle ==
    /\ InitFeatureIdle
    /\ feature_df = <<>>
    /\ InitSplitIdle

InitPerf ==
    /\ pc = "metrics"
    /\ baseline_metrics \in MetricDicts
    /\ current_metrics \in MetricDicts
    /\ degrade_threshold \in Thresholds
    /\ deltas = <<>>
    /\ InitFeatSplitIdle
    /\ InitDriftIdle
    /\ InitAppIdle

\* performance_drift(baseline_metrics, current_metrics, degrade_threshold)
performance_drift ==
    /\ pc = "metrics"
    /\ LET d == MetricDeltas(baseline_metrics, current_metrics)
       IN  deltas' = [k \in DOMAIN d \cup {"needs_retrain"} |->
                         IF k = "needs_retrain"
                         THEN NeedsRetrain(d, degrade_threshold)
                         ELSE d[k]]
    /\ pc' = "perf_done"
    /\ UNCHANGED <<baseline_metrics, current_metrics, degrade_threshold>>
    /\ UNCHANGED featVars
    /\ UNCHANGED splitVars
    /\ UNCHANGED driftVars
    /\ UNCHANGED appVars

NextPerf == performance_drift

SpecPerf == InitPerf /\ [][NextPerf]_vars

----------------------------------------------------------------------------
(* DriftAnalyzer: population_stability_index, kolmogorov_smirnov_statistic *)
(* and compute_data_drift_report (monitoring.py)                           *)
(*                                                                         *)
(* A column is [dtype, values]; values is a sequence of floats with        *)
(* integer payloads.  PSI is computed in fixed point: bin ratios in units  *)
(* of 1e-4, natural logarithms in units of 1e-3, the index in units of     *)
(* 1/PsiScale.  KS is the exact fraction [num, den].                       *)

MaxSeriesLen == 2

Buckets == 10
PsiScale == 10000000
LnEpsilonMilli == -13816
LnMilli == <<0, 693, 1099, 1386, 1609, 1792, 1946, 2079>>

ColNames == <<"a", "b">>
ColSet == {ColNames[i] : i \in 1..Len(ColNames)}

\* series.dropna()
DropNa(s) ==
    LET kept == SelectSeq(s, LAMBDA x : ~x.nan)
    IN  [i \in 1..Len(kept) |-> kept[i].v]

RECURSIVE SortAsc(_)
SortAsc(s) ==
    IF s = <<>> THEN <<>>
    ELSE LET i == CHOOSE k \in 1..Len(s) : \A j \in 1..Len(s) : s[k] <= s[j]
         IN  <<s[i]>> \o SortAsc(SubSeq(s, 1, i - 1) \o SubSeq(s, i + 1, Len(s)))

\* np.quantile(expected, k / buckets) with linear interpolation, times Buckets
QuantileTimes(xs, k) ==
    LET pos == k * (Len(xs) - 1)
        lo == pos \div Buckets
        fr == pos % Buckets
    IN  IF fr = 0 THEN Buckets * xs[lo + 1]
        ELSE Buckets * xs[lo + 1] + fr * (xs[lo + 2] - xs[lo + 1])

\* np.unique(np.quantile(expected, np.linspace(0, 1, buckets + 1))), times Buckets
Breaks(e) == {QuantileTimes(SortAsc(e), k) : k \in 0..Buckets}

\* np.clip(np.digitize(x, breaks, right=False) - 1, 0, len(breaks) - 2)
BinOf(x, breaks) ==
    LET d == Cardinality({b \in breaks : b <= Buckets * x}) - 1
        hi == Cardinality(breaks) - 2
    IN  IF d < 0 THEN 0 ELSE IF d > hi THEN hi ELSE d

BinCount(xs, breaks, b) ==
    Cardinality({i \in 1..Len(xs) : BinOf(xs[i], breaks) = b})

\* max(count / len, epsilon) in units of 1e-4 (epsilon = 1e-6 truncates to 0)
RatioE4(count, n) == (count * 10000) \div n

\* ln(max(count / len, epsilon)) in units of 1e-3
LnRatioMilli(count, n) ==
    IF count = 0 THEN LnEpsilonMilli ELSE LnMilli[count] - LnMilli[n]

\* (act_ratio - exp_ratio) * np.log(act_ratio / exp_ratio)
PsiTerm(ce, ne, ca, na) ==
    (RatioE4(ca, na) - RatioE4(ce, ne))
        * (LnRatioMilli(ca, na) - LnRatioMilli(ce, ne))

RECURSIVE PsiSum(_, _, _, _)
PsiSum(e, a, breaks, b) ==
    IF b < 0 THEN 0
    ELSE PsiTerm(BinCount(e, breaks, b), Len(e), BinCount(a, breaks, b), Len(a))
             + PsiSum(e, a, breaks, b - 1)

\* mutant: the degenerate rule is tested before the emptiness of actual
population_stability_index_degenerateFirst(expected, actual) ==
    LET e == DropNa(expected)
        a == DropNa(actual)
        breaks == Breaks(e)
    IN  IF e = <<>> THEN NaN
        ELSE IF Cardinality(breaks) < 2 THEN Num(0)
        ELSE IF a = <<>> THEN NaN
        ELSE Num(PsiSum(e, a, breaks, Cardinality(breaks) - 2))

population_stability_index(expected, actual) ==
    LET e == DropNa(expected)
        a == DropNa(actual)
        breaks == Breaks(e)
    IN  IF e = <<>> \/ a = <<>> THEN NaN
        ELSE IF Cardinality(breaks) < 2 THEN Num(0)
        ELSE Num(PsiSum(e, a, breaks, Cardinality(breaks) - 2))

\* np.searchsorted(sorted, v, side="right")
CountLe(xs, v) == Cardinality({i \in 1..Len(xs) : xs[i] <= v})

kolmogorov_smirnov_statistic(expected, actual) ==
    LET e == DropNa(expected)
        a == DropNa(actual)
        all_values == {e[i] : i \in 1..Len(e)} \cup {a[i] : i \in 1..Len(a)}
    IN  IF e = <<>> \/ a = <<>> THEN NaN
        ELSE [nan |-> FALSE,
              num |-> SetMax({Abs(CountLe(e, v) * Len(a) - CountLe(a, v) * Len(e)) :
                                v \in all_values}),
              den |-> Len(e) * Len(a)]

\* pd.api.types.is_numeric_dtype(table[col])
IsNumeric(table, col) == table[col].dtype = "num"

\* baseline.columns, in table order
ColumnsOf(table) == SelectSeq(ColNames, LAMBDA c : c \in DOMAIN table)

\* feature_columns, auto-detected from the baseline when None
RequestedColumns(b, fc) ==
    IF fc.given THEN fc.cols
    ELSE SelectSeq(ColumnsOf(b), LAMBDA c : IsNumeric(b, c))

\* baseline[col] raises KeyError for a requested column only current has
LoopRaises(b, c, cols) ==
    \E i \in 1..Len(cols) : cols[i] \in DOMAIN c /\ cols[i] \notin DOMAIN b

\* the columns the loop does not `continue` on
ReportedColumns(b, c, cols) ==
    SelectSeq(cols, LAMBDA col : col \in DOMAIN c /\ IsNumeric(b, col))

DriftRecords(b, c, cols) ==
    LET rep == ReportedColumns(b, c, cols)
    IN  [i \in 1..Len(rep) |->
            [feature |-> rep[i],
             psi |-> population_stability_index(b[rep[i]].values, c[rep[i]].values),
             ks |-> kolmogorov_smirnov_statistic(b[rep[i]].values, c[rep[i]].values)]]

\* mutant: >= also flags a PSI equal to the threshold
ExceedsPsi_inclusive(psi, threshold) == (~psi.nan) /\ psi.v >= threshold

\* not np.isnan(psi) and psi > psi_threshold
ExceedsPsi(psi, threshold) == (~psi.nan) /\ psi.v > threshold

\* not np.isnan(ks) and ks > ks_threshold
ExceedsKs(ks, threshold) == (~ks.nan) /\ ks.num * 100 > threshold * ks.den

DriftFlags(records, pt, kt) ==
    [psi |-> \E i \in 1..Len(records) : ExceedsPsi(records[i].psi, pt),
     ks |-> \E i \in 1..Len(records) : ExceedsKs(records[i].ks, kt)]

\* mutant: ascending order
SortValuesPsi_ascending(records) ==
    {p \in Perms(records) :
        \A i, j \in 1..Len(p) :
            i < j => /\ ~(p[i].psi.nan /\ ~p[j].psi.nan)
                     /\ (~p[i].psi.nan /\ ~p[j].psi.nan) => p[i].psi.v <= p[j].psi.v}

\* sort_values("psi", ascending=False): descending, NaN last, ties in any order
SortValuesPsi(records) ==
    {p \in Perms(records) :
        \A i, j \in 1..Len(p) :
            i < j => /\ ~(p[i].psi.nan /\ ~p[j].psi.nan)
                     /\ (~p[i].psi.nan /\ ~p[j].psi.nan) => p[i].psi.v >= p[j].psi.v}

\* column values of a table with n rows
SeriesOf(n) ==
    [1..n -> {Num(0), Num(1)}]
        \cup {[i \in 1..n |-> NaN]}
        \cup {[i \in 1..n |-> IF i = 1 THEN NaN ELSE Num(1)]}

ColumnsFor(n) ==
    {[dtype |-> "obj", values |-> <<>>]}
        \cup {[dtype |-> "num", values |-> v] : v \in SeriesOf(n)}

\* tables with n rows whose columns follow the schema dt
TablesOf(n, dt) ==
    UNION {{t \in [K -> ColumnsFor(n)] : \A c \in K : t[c].dtype = dt[c]} :
              K \in SUBSET ColSet}

NoColumns == [given |-> FALSE, cols |-> <<>>]

\* the defaults 0.2 and 0.1, and 0 for both
DriftThresholds == {[psi |-> (2 * PsiScale) \div 10, ks |-> 10], [psi |-> 0, ks |-> 0]}

InitDrift ==
    /\ pc = "tables"
    /\ \E dt \in [ColSet -> {"num", "obj"}] :
       \E nb, nc \in 0..MaxSeriesLen :
           /\ baseline \in TablesOf(nb, dt)
           /\ current \in TablesOf(nc, dt)
    /\ feature_columns \in {NoColumns, [given |-> TRUE, cols |-> <<"b", "a">>]}
    /\ \E th \in DriftThresholds :
           /\ psi_threshold = th.psi
           /\ ks_threshold = th.ks
    /\ report = <<>>
    /\ InitFeatSplitIdle
    /\ InitPerfIdle
    /\ InitAppIdle

\* compute_data_drift_report(baseline, current, feature_columns, psi_threshold, ks_threshold)
compute_data_drift_report ==
    /\ pc = "tables"
    /\ LET cols == RequestedColumns(baseline, feature_columns)
           records == DriftRecords(baseline, current, cols)
       IN  IF LoopRaises(baseline, current, cols) \/ records = <<>>
           THEN report' = [raised |-> TRUE, error |-> "KeyError"]
           ELSE \E sorted \in SortValuesPsi(records) :
                    report' = [raised |-> FALSE,
                               feature_metrics |-> sorted,
                               aggregate_flags |->
                                   DriftFlags(records, psi_threshold, ks_threshold)]
    /\ pc' = "drift_done"
    /\ UNCHANGED <<baseline, current, feature_columns, psi_threshold, ks_threshold>>
    /\ UNCHANGED featVars
    /\ UNCHANGED splitVars
    /\ UNCHANGED perfVars
    /\ UNCHANGED appVars

NextDrift == compute_data_drift_report

SpecDrift == InitDrift /\ [][NextDrift]_vars

----------------------------------------------------------------------------
(* build_feature_matrix as a function of the cleaned log, as train() and   *)
(* ModelService.predict call it                                            *)

\* a missing (None / NaT) value, and a present one
Null == [null |-> TRUE]
Val(x) == [null |-> FALSE, v |-> x]

\* a dictionary with no key
NoFields == [k \in {} |-> 0]

\* registration.dropna().iloc[0] over the working subset, as a set: empty
\* when no registration is left, else the value of the earliest such event
FirstRegistration(w) ==
    LET known == {e \in w : ~e.registration.null}
    IN  IF known = {} THEN {}
        ELSE {(CHOOSE e \in known : \A y \in known : e.ts <= y.ts).registration.v}

\* "<col>" in user_events.columns: filtering keeps the columns of the group
HasColumn(ue, col) == \A e \in ue : col \in DOMAIN e

\* snapshot["account_age_days"] = float((cutoff_ts - reg_time).days), set
\* only when the column exists and a registration is known
AccountAgeField(ue, w, cutoff) ==
    IF ~HasColumn(ue, "registration") THEN NoFields
    ELSE IF FirstRegistration(w) = {} THEN NoFields
    ELSE LET reg_time == CHOOSE t \in FirstRegistration(w) : TRUE
         IN  [k \in {"account_age_days"} |-> (cutoff - reg_time) \div DayMs]

\* series.dropna() of a column of the ts-sorted working subset
NonNullValues(w, col) ==
    LET sorted == SortByTs(w)
        kept == SelectSeq(sorted, LAMBDA e : ~e[col].null)
    IN  [i \in 1..Len(kept) |-> kept[i][col].v]

\* series.unique(): the distinct values in order of first appearance
RECURSIVE Unique(_)
Unique(s) ==
    IF s = <<>> THEN <<>>
    ELSE LET init == Unique(SubSeq(s, 1, Len(s) - 1))
             x == s[Len(s)]
         IN  IF \E i \in 1..Len(init) : init[i] = x THEN init ELSE Append(init, x)

\* genders[-1] if len(genders) else None, as a set of at most one value
LastGender(w) ==
    LET genders == Unique(NonNullValues(w, "gender"))
    IN  IF Len(genders) > 0 THEN {genders[Len(genders)]} ELSE {}

\* levels.iloc[-1] if len(levels) else None, as a set of at most one value
LastLevel(w) ==
    LET levels == NonNullValues(w, "level")
    IN  IF Len(levels) > 0 THEN {levels[Len(levels)]} ELSE {}

\* gender_M and gender_F, set when include_gender and the column exists
GenderFields(ue, w, cfg) ==
    IF cfg.include_gender /\ HasColumn(ue, "gender")
    THEN [k \in {"gender_M", "gender_F"} |->
             IF k = "gender_M" THEN (IF LastGender(w) = {"M"} THEN 1 ELSE 0)
             ELSE (IF LastGender(w) = {"F"} THEN 1 ELSE 0)]
    ELSE NoFields

\* current_level_paid, set when include_level
LevelField(w, cfg) ==
    IF cfg.include_level
    THEN [k \in {"current_level_paid"} |-> IF LastLevel(w) = {"paid"} THEN 1 ELSE 0]
    ELSE NoFields

\* a float result: the NaN of above, or the exact fraction num / den
Frac(n, d) == [nan |-> FALSE, num |-> n, den |-> d]
Zero == Frac(0, 1)

\* the sum of the values of a function with a finite domain
RECURSIVE SumFn(_)
SumFn(f) ==
    IF DOMAIN f = {} THEN 0
    ELSE LET k == CHOOSE x \in DOMAIN f : TRUE
         IN  f[k] + SumFn([j \in DOMAIN f \ {k} |-> f[j]])

\* the values of a per-session series, as a sequence sorted ascending
SortedValues(f) ==
    LET keys == CHOOSE q \in [1..Cardinality(DOMAIN f) -> DOMAIN f] :
                    \A i, j \in DOMAIN q : i # j => q[i] # q[j]
    IN  SortAsc([i \in 1..Len(keys) |-> f[keys[i]]])

\* series.mean(): NaN for an empty series
Mean(f) ==
    IF DOMAIN f = {} THEN NaN ELSE Frac(SumFn(f), Cardinality(DOMAIN f))

\* series.median() of a non-empty series
Median(f) ==
    LET v == SortedValues(f)
        n == Len(v)
    IN  IF n % 2 = 1 THEN Frac(v[(n + 1) \div 2], 1)
        ELSE Frac(v[n \div 2] + v[n \div 2 + 1], 2)

\* series.std(ddof=0), held as its square: the population variance
StdSquared(f) ==
    LET n == Cardinality(DOMAIN f)
    IN  Frac(n * SumFn([k \in DOMAIN f |-> f[k] * f[k]]) - SumFn(f) * SumFn(f), n * n)

\* user_events.groupby("sessionId")["itemInSession"].max()
SessionItemCounts(w) ==
    [sid \in {e.sessionId : e \in w} |->
        SetMax({e.itemInSession : e \in {x \in w : x.sessionId = sid}})]

\* (grouped.max() - grouped.min()).dt.total_seconds() / 60.0, in minutes
SessionDurations(w) ==
    [sid \in {e.sessionId : e \in w} |->
        LET ts == {e.ts : e \in {x \in w : x.sessionId = sid}}
        IN  (SetMax(ts) - SetMin(ts)) \div 60000]

\* _session_stats(events): mean, median and squared std of the durations
_session_stats(w) ==
    LET durations == SessionDurations(w)
        none == [mean |-> Zero, median |-> Zero, std |-> Zero]
    IN  IF w = {} THEN none
        ELSE IF DOMAIN durations = {} THEN none
        ELSE [mean |-> Mean(durations),
              median |-> Median(durations),
              std |-> IF Cardinality(DOMAIN durations) > 1
                      THEN StdSquared(durations) ELSE Zero]

\* _event_rate(events): events per hour of the spanned time
_event_rate(w) ==
    IF w = {} THEN Zero
    ELSE LET span == SetMax({e.ts : e \in w}) - SetMin({e.ts : e \in w})
         IN  IF span <= 0 THEN Frac(Cardinality(w), 1)
             ELSE Frac(Cardinality(w) * 3600000, span)

\* _safe_ratio(numerator, denominator)
_safe_ratio(numerator, denominator) ==
    IF denominator = 0 THEN Zero ELSE Frac(numerator, denominator)

\* float(timespan.days if pd.notnull(timespan) else 0)
ActiveDays(w) ==
    IF w = {} THEN Zero
    ELSE Frac((SetMax({e.ts : e \in w}) - SetMin({e.ts : e \in w})) \div DayMs, 1)

\* the statistics of the snapshot computed from itemInSession, ts and level
NumericStats(w) ==
    LET session_item_counts == SessionItemCounts(w)
        stats == _session_stats(w)
    IN  [avg_items_per_session |-> Mean(session_item_counts),
         std_items_per_session |->
             IF Cardinality(DOMAIN session_item_counts) > 1
             THEN StdSquared(session_item_counts) ELSE Zero,
         event_rate_per_hour |-> _event_rate(w),
         avg_session_minutes |-> stats.mean,
         median_session_minutes |-> stats.median,
         std_session_minutes |-> stats.std,
         paid_event_ratio |->
             _safe_ratio(Cardinality({e \in w : e.level = Val("paid")}),
                         Cardinality(w)),
         active_days |-> ActiveDays(w)]

\* the snapshot of one loop iteration with its statistics and optional keys
FullSnapshot(u, ue, cfg) ==
    LET w == WorkingSubset(ue, cfg)
    IN  Snapshot(u, ue, cfg) @@ NumericStats(w)
            @@ GenderFields(ue, w, cfg) @@ LevelField(w, cfg)
            @@ AccountAgeField(ue, w, CutoffTs(ue))

\* the snapshots appended by the loop over the groups `keys`, in that order
RECURSIVE FeatureRows(_, _, _)
FeatureRows(keys, log, cfg) ==
    IF keys = <<>> THEN <<>>
    ELSE LET u == Head(keys)
             ue == UserEvents(log, u)
             rest == FeatureRows(Tail(keys), log, cfg)
         IN  IF PassesThresholds(WorkingSubset(ue, cfg), cfg)
             THEN <<FullSnapshot(u, ue, cfg)>> \o rest
             ELSE rest

\* build_feature_matrix(events, feature_config): the tables it can return
build_feature_matrix(log, cfg) ==
    LET rows == FeatureRows(GroupKeys(log), log, cfg)
    IN  IF rows = <<>> THEN {<<>>} ELSE SortValuesLabelTs(rows)

\* the columns of pd.DataFrame(feature_rows): the union of the snapshots' keys
TableColumns(df) == UNION {DOMAIN df[i] : i \in 1..Len(df)}

\* clean_event_log: rows with a null, empty or "None" userId are dropped
clean_event_log(df) == {e \in df : e.userId # "" /\ e.userId # "None"}

----------------------------------------------------------------------------
(* Serving: ModelService.predict (api/main.py)                             *)

MaxBatch == 2

ServeUserIds == {"u1", "u2", ""}
ServeTimes == {0, 600000}

\* Event payloads: userId is any string, registration may be None
ServeEvents ==
    [userId : ServeUserIds, ts : ServeTimes, sessionId : {1}, page : Pages,
     itemInSession : {0}, registration : {Null, Val(0)}, gender : {Null},
     level : {Null}]

RECURSIVE BatchesUpTo(_)
BatchesUpTo(k) ==
    IF k = 0 THEN {{}}
    ELSE LET p == BatchesUpTo(k - 1)
         IN  p \cup {s \cup {e} : s \in p, e \in ServeEvents}

ServeConfigs ==
    [lookback_days : {0},
     min_events_per_user : {0, 1, 2},
     min_sessions_per_user : {0, 1},
     include_gender : {TRUE},
     include_level : {TRUE}]

\* the columns _prepare_features fixed when the pipeline was fitted: every
\* column of the training table but the target and label_ts
BaseFeatureCols ==
    {"num_events", "num_sessions", "num_songs",
     "avg_items_per_session", "std_items_per_session", "event_rate_per_hour",
     "avg_session_minutes", "median_session_minutes", "std_session_minutes",
     "paid_event_ratio", "active_days",
     "gender_M", "gender_F", "current_level_paid"}
Pipelines ==
    {[feature_cols |-> BaseFeatureCols],
     [feature_cols |-> BaseFeatureCols \cup {"account_age_days"}]}

\* churn probabilities the fitted model can answer, in hundredths
Probabilities == {20, 50, 70}

\* pipeline.predict_proba(inference_df): the ColumnTransformer selects its
\* fitted columns by name and raises ValueError when one is missing
PredictProba(pl, inference_df) ==
    IF pl.feature_cols \subseteq TableColumns(inference_df)
    THEN {[raised |-> FALSE, proba |-> p] : p \in Probabilities}
    ELSE {[raised |-> TRUE]}

HttpError(code) == [sent |-> TRUE, status |-> code]

InitServe ==
    /\ pc = "request"
    /\ request \in BatchesUpTo(MaxBatch)
    /\ pipeline \in Pipelines
    /\ feature_config \in ServeConfigs
    /\ events = {}
    /\ pending = <<>>
    /\ feature_rows = <<>>
    /\ feature_df = <<>>
    /\ artifacts = {}
    /\ response = NoResponse
    /\ InitSplitIdle
    /\ InitPerfIdle
    /\ InitDriftIdle

\* ModelService.predict(events)
predict ==
    /\ pc = "request"
    /\ pc' = "served"
    /\ LET user_ids == {e.userId : e \in request}
           df == clean_event_log(request)
       IN  IF Cardinality(user_ids) # 1
           THEN /\ response' = HttpError(400)
                /\ UNCHANGED <<events, feature_df>>
           ELSE /\ events' = df
                /\ \E features \in build_feature_matrix(df, feature_config) :
                       /\ feature_df' = features
                       /\ IF features = <<>>
                          THEN response' = HttpError(422)
                          ELSE \E out \in PredictProba(pipeline, features) :
                                   response' =
                                       IF out.raised THEN HttpError(500)
                                       ELSE [sent |-> TRUE, status |-> 200,
                                             churn_probability |-> out.proba,
                                             churn_label |-> IF out.proba >= 50 THEN 1 ELSE 0,
                                             user_id |-> CHOOSE u \in user_ids : TRUE]
    /\ UNCHANGED <<feature_config, pending, feature_rows>>
    /\ UNCHANGED <<artifacts, request, pipeline>>
    /\ UNCHANGED splitVars
    /\ UNCHANGED perfVars
    /\ UNCHANGED driftVars

NextServe == predict

SpecServe == InitServe /\ [][NextServe]_vars

----------------------------------------------------------------------------
(* Training: train (trainer.py), from the loaded log to the artifacts      *)

MaxTrainEvents == 3

TrainUserIds == {"u1", "u2", "u3", ""}

\* rows of the raw log load_event_log returns
TrainEvents ==
    [userId : TrainUserIds, ts : ServeTimes, sessionId : {1}, page : Pages,
     itemInSession : {0}, registration : {Null}, gender : {Null}, level : {Null}]

RECURSIVE TrainLogsUpTo(_)
TrainLogsUpTo(k) ==
    IF k = 0 THEN {{}}
    ELSE LET p == TrainLogsUpTo(k - 1)
         IN  p \cup {s \cup {e} : s \in p, e \in TrainEvents}

TrainSplitConfigs ==
    [method : {"temporal", "stratified"},
     test_ratio : {50},
     min_train_users : {0, 2},
     temporal_holdout_days : {0},
     random_state : {42}]

\* model.joblib, the features and evaluation_set exports, metrics.json
ArtifactFiles == {"model.joblib", "features", "evaluation_set", "metrics.json"}

\* mutant: the emptiness of the feature table is not tested
FeaturesRejected_never(features) == FALSE

\* feature_df.empty
FeaturesRejected(features) == features = <<>>

\* pipeline.fit(X_train, y_train): the classifier rejects an empty train
\* part and one with a single class
FitRaises(tr) == tr = <<>> \/ Cardinality(Classes(tr)) < 2

InitTrain ==
    /\ pc = "train"
    /\ events \in TrainLogsUpTo(MaxTrainEvents)
    /\ feature_config \in ServeConfigs
    /\ split_config \in TrainSplitConfigs
    /\ pending = <<>>
    /\ feature_rows = <<>>
    /\ feature_df = <<>>
    /\ train_df = <<>>
    /\ test_df = <<>>
    /\ split_call = NoCall
    /\ InitPerfIdle
    /\ InitDriftIdle
    /\ InitAppIdle

\* train(): load, clean, build the feature table, raise ValueError when empty
TrainBuild ==
    /\ pc = "train"
    /\ \E features \in build_feature_matrix(clean_event_log(events), feature_config) :
           /\ feature_df' = features
           /\ pc' = IF FeaturesRejected(features) THEN "no_features" ELSE "features"
    /\ UNCHANGED <<events, feature_config, pending, feature_rows>>
    /\ UNCHANGED splitVars
    /\ UNCHANGED perfVars
    /\ UNCHANGED driftVars
    /\ UNCHANGED appVars

\* train(): _prepare_features, fit, predict, evaluate, persist the artifacts
TrainFitPersist ==
    /\ pc = "split"
    /\ IF FitRaises(train_df)
       THEN /\ pc' = "raised"
            /\ UNCHANGED artifacts
       ELSE /\ pc' = "trained"
            /\ artifacts' = ArtifactFiles
    /\ UNCHANGED <<request, pipeline, response>>
    /\ UNCHANGED featVars
    /\ UNCHANGED splitVars
    /\ UNCHANGED perfVars
    /\ UNCHANGED driftVars

NextTrain == TrainBuild \/ _temporal_split \/ TrainStratified \/ TrainFitPersist

SpecTrain == InitTrain /\ [][NextTrain]_vars

----------------------------------------------------------------------------
(* build_feature_matrix on one user's log with the categorical columns     *)

MaxObs == 3

\* the instants of a user's events, ten minutes apart, one event per instant
ObsTimes == {(i - 1) * 600000 : i \in 1..MaxObs}

Genders == {Null, Val("M"), Val("F")}
Levels == {Null, Val("paid"), Val("free")}

\* what an event of the categorical log carries besides its instant
CatAttrs == [page : Pages, gender : Genders, level : Levels]

CatEvent(t, a) ==
    [userId |-> "u1", ts |-> t, sessionId |-> 1, page |-> a.page,
     itemInSession |-> 0, gender |-> a.gender, level |-> a.level]

\* the log of one user with the event of attributes f[t] at each instant t of K
CatLog(K, f) == {CatEvent(t, f[t]) : t \in K}

CatConfigs ==
    [lookback_days : {0},
     min_events_per_user : {0},
     min_sessions_per_user : {0},
     include_gender : BOOLEAN,
     include_level : BOOLEAN]

InitCat ==
    /\ pc = "call"
    /\ \E K \in SUBSET ObsTimes : \E f \in [K -> CatAttrs] : events = CatLog(K, f)
    /\ feature_config \in CatConfigs
    /\ pending = <<>>
    /\ feature_rows = <<>>
    /\ feature_df = <<>>
    /\ InitSplitIdle
    /\ InitPerfIdle
    /\ InitDriftIdle
    /\ InitAppIdle

\* feature_df = build_feature_matrix(events, feature_config)
BuildFeatureMatrix ==
    /\ pc = "call"
    /\ feature_df' \in build_feature_matrix(events, feature_config)
    /\ pc' = "built"
    /\ UNCHANGED <<events, feature_config, pending, feature_rows>>
    /\ UNCHANGED splitVars
    /\ UNCHANGED perfVars
    /\ UNCHANGED driftVars
    /\ UNCHANGED appVars

NextCat == BuildFeatureMatrix

SpecCat == InitCat /\ [][NextCat]_vars

----------------------------------------------------------------------------
(* build_feature_matrix on one user's log with the session columns         *)

\* the instants of the log: one at 0, the others more than a day later
StatsTimes == {0} \cup {DayMs + (i - 1) * 600000 : i \in 2..MaxObs}

StatsAttrs ==
    [sessionId : Sessions, page : Pages, itemInSession : {0, 3},
     level : {Val("paid"), Val("free")}]

StatsEvent(t, a) ==
    [userId |-> "u1", ts |-> t, sessionId |-> a.sessionId, page |-> a.page,
     itemInSession |-> a.itemInSession, gender |-> Null, level |-> a.level]

\* the log of one user with the event of attributes f[t] at each instant t of K
StatsLog(K, f) == {StatsEvent(t, f[t]) : t \in K}

StatsConfigs ==
    [lookback_days : {0, 1},
     min_events_per_user : {0, 1},
     min_sessions_per_user : {0, 1},
     include_gender : {TRUE},
     include_level : {TRUE}]

InitStats ==
    /\ pc = "call"
    /\ \E K \in SUBSET StatsTimes : \E f \in [K -> StatsAttrs] : events = StatsLog(K, f)
    /\ feature_config \in StatsConfigs
    /\ pending = <<>>
    /\ feature_rows = <<>>
    /\ feature_df = <<>>
    /\ InitSplitIdle
    /\ InitPerfIdle
    /\ InitDriftIdle
    /\ InitAppIdle

SpecStats == InitStats /\ [][NextCat]_vars

----------------------------------------------------------------------------
(* Properties of build_user_features, stated over the event log itself     *)

\* every snapshot produced so far, and every row of the returned table
EmittedRows == SelectSeqSet(feature_rows) \cup SelectSeqSet(feature_df)

\* users whose loop iteration has run
Visited == {u \in Users : (\E e \in events : e.userId = u)
                          /\ ~(\E i \in 1..Len(pending) : pending[i] = u)}

History(u) == {e \in events : e.userId = u}
HasChurnEvent(u) == \E e \in History(u) : e.page = CHURN_EVENT
FirstChurnTs(u) == SetMin({e.ts : e \in {x \in History(u) : x.page = CHURN_EVENT}})
LastEventTs(u) == SetMax({e.ts : e \in History(u)})
LabelTime(u) == IF HasChurnEvent(u) THEN FirstChurnTs(u) ELSE LastEventTs(u)

\* the window the specification describes for user u
Window(u) ==
    {e \in History(u) :
        /\ HasChurnEvent(u) => e.ts < LabelTime(u)
        /\ feature_config.lookback_days > 0 =>
               e.ts >= LabelTime(u) - feature_config.lookback_days * DayMs}

DistinctSessions(S) == Cardinality({e.sessionId : e \in S})

\* C1: no leakage: for every emitted row of a churned user, every event
\* counted in the row's aggregates has a timestamp strictly below label_ts;
\* the cancellation, events at its instant and later events are excluded.
C1_NoLeakage ==
    \A r \in EmittedRows :
        r.churned = 1 =>
            LET before == {e \in History(r.userId) : e.ts < r.label_ts}
            IN  /\ r.user_events \subseteq before
                /\ \A e \in r.user_events : e.page # CHURN_EVENT
                /\ r.num_events <= Cardinality(before)
                /\ r.num_songs <= Cardinality({e \in before : e.page = "NextSong"})
                /\ r.num_sessions <= DistinctSessions(before)

\* a churned user's row with counted events, whose history also holds a
\* non-cancellation event at or after the first cancellation
C1_Witness ==
    /\ pc = "built"
    /\ \E i \in 1..Len(feature_df) :
           LET r == feature_df[i]
           IN  /\ r.churned = 1
               /\ r.num_events >= 1
               /\ \E e \in History(r.userId) :
                      e.ts >= r.label_ts /\ e.page # CHURN_EVENT

ScenarioTimes == {0, 600000, 1200000}

\* u1: NextSong at 0, NextSong at 600000, Cancellation Confirmation at 1200000
IsScenarioLog ==
    /\ Cardinality(events) = 3
    /\ \A e \in events : e.userId = "u1"
    /\ {e.ts : e \in events} = ScenarioTimes
    /\ \A e \in events : e.page = (IF e.ts = 1200000 THEN CHURN_EVENT ELSE "NextSong")

\* C2: label-time rule: label_ts is the earliest cancellation timestamp of a
\* churned user, otherwise the maximum timestamp over the user's whole
\* history; the u1 scenario yields exactly one row with churned = 1,
\* label_ts = 1200000 and num_events = 2.
C2_LabelTime ==
    /\ \A r \in EmittedRows : r.label_ts = LabelTime(r.userId)
    /\ (/\ pc = "built"
        /\ IsScenarioLog
        /\ feature_config.min_events_per_user = 1
        /\ feature_config.min_sessions_per_user = 1)
       => /\ Len(feature_df) = 1
          /\ feature_df[1].userId = "u1"
          /\ feature_df[1].churned = 1
          /\ feature_df[1].label_ts = 1200000
          /\ feature_df[1].num_events = 2

\* the scenario has been built, and so has a row of a user with two
\* cancellation events at different instants
C2_Witness ==
    /\ pc = "built"
    /\ IsScenarioLog
    /\ feature_config.min_events_per_user = 1
    /\ feature_config.min_sessions_per_user = 1
    /\ Len(feature_df) = 1

C2_WitnessTwoCancellations ==
    /\ pc = "built"
    /\ \E i \in 1..Len(feature_df) :
           Cardinality({e.ts : e \in {x \in History(feature_df[i].userId) :
                                        x.page = CHURN_EVENT}}) >= 2

\* C3: churned is 0 or 1, and it is 1 exactly when the user's full history
\* holds a Cancellation Confirmation event.
C3_ChurnLabel ==
    \A r \in EmittedRows :
        /\ r.churned \in {0, 1}
        /\ (r.churned = 1) <=> HasChurnEvent(r.userId)

\* a table holding a churned and a non-churned user; the churned user has
\* events after the cancellation
C3_Witness ==
    /\ pc = "built"
    /\ \E i, j \in 1..Len(feature_df) :
           /\ feature_df[i].churned = 1
           /\ feature_df[j].churned = 0
           /\ \E e \in History(feature_df[i].userId) : e.ts > feature_df[i].label_ts

\* C4: threshold property: a user whose window has fewer than
\* min_events_per_user events or fewer than min_sessions_per_user distinct
\* sessions has no row.
C4_Threshold ==
    \A u \in Visited :
        (\/ Cardinality(Window(u)) < feature_config.min_events_per_user
         \/ DistinctSessions(Window(u)) < feature_config.min_sessions_per_user)
        => ~(\E r \in EmittedRows : r.userId = u)

\* a user dropped by the session threshold alone, beside a user that is kept
C4_Witness ==
    /\ pc = "built"
    /\ \E u \in Visited :
           /\ Cardinality(Window(u)) >= feature_config.min_events_per_user
           /\ DistinctSessions(Window(u)) < feature_config.min_sessions_per_user
           /\ ~(\E i \in 1..Len(feature_df) : feature_df[i].userId = u)

C4_WitnessEvents ==
    /\ pc = "built"
    /\ Len(feature_df) = 1
    /\ \E u \in Visited :
           /\ Cardinality(Window(u)) < feature_config.min_events_per_user
           /\ Cardinality(Window(u)) > 0

\* C5: lookback window: with lookback_days > 0 the working subset is exactly
\* the events with label_ts - lookback_days days <= ts (and ts < label_ts for
\* a churned user); with lookback_days = 0 there is no lower bound.
C5_Lookback ==
    \A r \in EmittedRows :
        LET u == r.userId
            lower == r.label_ts - feature_config.lookback_days * DayMs
        IN  /\ feature_config.lookback_days > 0 =>
                r.user_events =
                    {e \in History(u) : /\ lower <= e.ts
                                        /\ HasChurnEvent(u) => e.ts < r.label_ts}
            /\ feature_config.lookback_days = 0 =>
                r.user_events =
                    {e \in History(u) : HasChurnEvent(u) => e.ts < r.label_ts}
            /\ r.num_events = Cardinality(r.user_events)

\* a row whose window keeps an event exactly at window_start and drops an
\* older one
C5_Witness ==
    /\ pc = "built"
    /\ feature_config.lookback_days > 0
    /\ \E i \in 1..Len(feature_df) :
           LET r == feature_df[i]
               lower == r.label_ts - feature_config.lookback_days * DayMs
           IN  /\ \E e \in r.user_events : e.ts = lower
               /\ \E e \in History(r.userId) : e.ts < lower

\* C6: table shape: each userId is in at most one row, and the rows are in
\* ascending label_ts order.
C6_TableShape ==
    pc = "built" =>
        /\ \A i, j \in 1..Len(feature_df) :
               feature_df[i].userId = feature_df[j].userId => i = j
        /\ \A i \in 1..Len(feature_df) - 1 :
               feature_df[i].label_ts <= feature_df[i + 1].label_ts

\* two rows, returned in the opposite of the groupby order
C6_Witness ==
    /\ pc = "built"
    /\ Len(feature_df) = 2
    /\ feature_df[1].userId = "u2"
    /\ feature_df[2].userId = "u1"
    /\ feature_df[1].label_ts < feature_df[2].label_ts

----------------------------------------------------------------------------
(* Properties of the splitter                                              *)

RowSet(df) == {df[i] : i \in 1..Len(df)}
Ids(df) == {df[i].userId : i \in 1..Len(df)}

\* C7: split completeness: for the temporal method, its fallback and the
\* stratified method, the returned train and test tables are disjoint, every
\* input row is in exactly one of them, and the rows keep all their columns,
\* churned and label_ts included.
C7_SplitComplete ==
    pc = "split" =>
        /\ Len(train_df) + Len(test_df) = Len(feature_df)
        /\ Ids(train_df) \cap Ids(test_df) = {}
        /\ Cardinality(Ids(train_df)) = Len(train_df)
        /\ Cardinality(Ids(test_df)) = Len(test_df)
        /\ RowSet(train_df) \cup RowSet(test_df) = RowSet(feature_df)
        /\ \A r \in RowSet(train_df) \cup RowSet(test_df) :
               {"churned", "label_ts"} \subseteq DOMAIN r

\* the fallback path of the temporal method returned two non-empty tables
C7_Witness ==
    /\ pc = "split"
    /\ split_config.method = "temporal"
    /\ split_call.called
    /\ Len(train_df) > 0
    /\ Len(test_df) > 0

C7_WitnessTemporal ==
    /\ pc = "split"
    /\ split_config.method = "temporal"
    /\ ~split_call.called
    /\ Len(train_df) > 0
    /\ Len(test_df) > 1

C7_WitnessStratified ==
    /\ pc = "split"
    /\ split_config.method = "stratified"
    /\ Len(train_df) > 1
    /\ Len(test_df) > 1

\* C8: temporal split and fallback: with cutoff = max(label_ts) - holdout
\* days, the result is train = rows below the cutoff and test = rows at or
\* above it exactly when len(train) >= min_train_users and len(test) > 0;
\* otherwise the whole table goes to the stratified split with test_ratio
\* and the configured seed.
C8_TemporalFallback ==
    (split_config.method = "temporal" /\ pc \in {"split", "raised"}) =>
        LET n == Len(feature_df)
            latest == CHOOSE t \in {feature_df[i].label_ts : i \in 1..n} :
                          \A i \in 1..n : feature_df[i].label_ts <= t
            cutoff == latest - split_config.temporal_holdout_days * DayMs
            below == {feature_df[i].userId : i \in {k \in 1..n :
                          feature_df[k].label_ts < cutoff}}
            atOrAbove == {feature_df[i].userId : i \in {k \in 1..n :
                              feature_df[k].label_ts >= cutoff}}
            kept == /\ Cardinality(below) >= split_config.min_train_users
                    /\ Cardinality(atOrAbove) > 0
        IN  /\ kept =>
                /\ pc = "split"
                /\ ~split_call.called
                /\ Ids(train_df) = below
                /\ Ids(test_df) = atOrAbove
            /\ ~kept =>
                /\ split_call.called
                /\ split_call.index = [i \in 1..n |-> feature_df[i].userId]
                /\ split_call.stratify = [i \in 1..n |-> feature_df[i].churned]
                /\ split_call.test_size = split_config.test_ratio
                /\ split_call.random_state = split_config.random_state
                /\ pc = "split" =>
                       /\ Ids(train_df) \cup Ids(test_df) = Ids(feature_df)
                       /\ Len(test_df) * 100 >= split_config.test_ratio * n
                       /\ (Len(test_df) - 1) * 100 < split_config.test_ratio * n

\* the fallback was taken because the temporal train part was too small,
\* although the temporal test part was not empty and the train part neither
C8_Witness ==
    /\ pc = "split"
    /\ split_config.method = "temporal"
    /\ split_call.called
    /\ split_config.random_state = 42
    /\ \E i \in 1..Len(feature_df) :
           feature_df[i].label_ts <
               feature_df[Len(feature_df)].label_ts
                   - split_config.temporal_holdout_days * DayMs

C8_WitnessKept ==
    /\ pc = "split"
    /\ split_config.method = "temporal"
    /\ ~split_call.called
    /\ split_config.min_train_users = 2
    /\ Len(train_df) = 2

----------------------------------------------------------------------------
(* Properties of performance_drift                                         *)

SharedMetrics == DOMAIN baseline_metrics \cap DOMAIN current_metrics

\* the metric has a defined relative change
DefinedChange(m) ==
    /\ ~baseline_metrics[m].nan
    /\ ~current_metrics[m].nan
    /\ baseline_metrics[m].v # 0

\* (current - baseline)/|baseline| < -|threshold|, cross-multiplied
DropsBeyond(m) ==
    (current_metrics[m].v - baseline_metrics[m].v) * 100
        < (-Abs(degrade_threshold)) * Abs(baseline_metrics[m].v)

IsScenarioMetrics ==
    /\ DOMAIN baseline_metrics = {"f1"}
    /\ DOMAIN current_metrics = {"f1"}
    /\ baseline_metrics["f1"] = Num(80)
    /\ current_metrics["f1"] = Num(65)
    /\ degrade_threshold = 10

\* C9: retrain decision: a delta is reported only for the metrics present in
\* both inputs; a zero baseline yields the undefined sentinel, which never
\* decides; needs_retrain holds exactly when some defined delta
\* (current - baseline)/|baseline| is below -|degrade_threshold|; for
\* baseline f1 0.80, current f1 0.65 and threshold 0.1 the delta is -0.1875
\* and needs_retrain is true.
C9_RetrainDecision ==
    pc = "perf_done" =>
        /\ DOMAIN deltas \ {"needs_retrain"} = SharedMetrics
        /\ \A m \in SharedMetrics :
               /\ (~baseline_metrics[m].nan /\ baseline_metrics[m].v = 0)
                      => deltas[m].nan
               /\ DefinedChange(m) <=> ~deltas[m].nan
               /\ DefinedChange(m) =>
                      /\ deltas[m].den > 0
                      /\ deltas[m].num * Abs(baseline_metrics[m].v) =
                             (current_metrics[m].v - baseline_metrics[m].v)
                                 * deltas[m].den
        /\ deltas["needs_retrain"] <=>
               \E m \in SharedMetrics : DefinedChange(m) /\ DropsBeyond(m)
        /\ (\A m \in SharedMetrics :
                DefinedChange(m) =>
                    current_metrics[m].v >= baseline_metrics[m].v)
               => ~deltas["needs_retrain"]
        /\ IsScenarioMetrics =>
               /\ deltas["f1"].num * 10000 = (-1875) * deltas["f1"].den
               /\ deltas["needs_retrain"]

\* a degraded metric beside a zero-baseline metric, under a negative threshold
C9_Witness ==
    /\ pc = "perf_done"
    /\ degrade_threshold < 0
    /\ deltas["needs_retrain"]
    /\ \E m \in SharedMetrics : deltas[m].nan /\ ~baseline_metrics[m].nan
    /\ \E m \in SharedMetrics : DefinedChange(m) /\ DropsBeyond(m)

C9_WitnessScenario ==
    /\ pc = "perf_done"
    /\ IsScenarioMetrics
    /\ deltas["needs_retrain"]

C9_WitnessBoundary ==
    /\ pc = "perf_done"
    /\ degrade_threshold = 10
    /\ ~deltas["needs_retrain"]
    /\ \E m \in SharedMetrics :
           baseline_metrics[m] = Num(80) /\ current_metrics[m] = Num(72)

----------------------------------------------------------------------------
(* Properties of compute_data_drift_report                                 *)

\* the columns the report is asked about: feature_columns, or every column
\* of the baseline when none is given
Considered ==
    IF feature_columns.given
    THEN {feature_columns.cols[i] : i \in 1..Len(feature_columns.cols)}
    ELSE DOMAIN baseline

SharedNumeric ==
    {c \in Considered : /\ c \in DOMAIN baseline
                        /\ c \in DOMAIN current
                        /\ baseline[c].dtype = "num"}

\* C10: drift report: one record per considered column that is in both
\* tables and numeric; records in descending PSI order (undefined PSI last);
\* flag psi (ks) is true exactly when some record has a defined PSI (KS)
\* strictly above psi_threshold (ks_threshold).
C10_DriftReport ==
    (pc = "drift_done" /\ ~report.raised) =>
        LET recs == report.feature_metrics
            n == Len(recs)
        IN  /\ {recs[i].feature : i \in 1..n} = SharedNumeric
            /\ n = Cardinality(SharedNumeric)
            /\ \A i \in 1..n - 1 :
                   /\ recs[i].psi.nan => recs[i + 1].psi.nan
                   /\ (~recs[i].psi.nan /\ ~recs[i + 1].psi.nan)
                          => recs[i].psi.v >= recs[i + 1].psi.v
            /\ report.aggregate_flags.psi <=>
                   \E i \in 1..n :
                       (~recs[i].psi.nan) /\ recs[i].psi.v > psi_threshold
            /\ report.aggregate_flags.ks <=>
                   \E i \in 1..n :
                       (~recs[i].ks.nan)
                           /\ recs[i].ks.num * 100 > ks_threshold * recs[i].ks.den

\* auto-detected columns; the report puts b, whose PSI is above the
\* threshold, before a, whose PSI is undefined; only b sets the flags
C10_Witness ==
    /\ pc = "drift_done"
    /\ ~report.raised
    /\ ~feature_columns.given
    /\ Len(report.feature_metrics) = 2
    /\ report.feature_metrics[1].feature = "b"
    /\ report.feature_metrics[1].psi.nan = FALSE
    /\ report.feature_metrics[2].psi.nan
    /\ report.aggregate_flags.psi
    /\ report.aggregate_flags.ks

\* two defined PSI values, reordered
C10_WitnessReorder ==
    /\ pc = "drift_done"
    /\ ~report.raised
    /\ ~feature_columns.given
    /\ Len(report.feature_metrics) = 2
    /\ report.feature_metrics[1].feature = "b"
    /\ ~report.feature_metrics[1].psi.nan
    /\ ~report.feature_metrics[2].psi.nan
    /\ report.feature_metrics[1].psi.v > report.feature_metrics[2].psi.v

\* a PSI and a KS equal to their thresholds set no flag
C10_WitnessAtThreshold ==
    /\ pc = "drift_done"
    /\ ~report.raised
    /\ \E i \in 1..Len(report.feature_metrics) :
           /\ ~report.feature_metrics[i].psi.nan
           /\ report.feature_metrics[i].psi.v = psi_threshold
           /\ ~report.feature_metrics[i].ks.nan
    /\ ~report.aggregate_flags.psi
    /\ ~report.aggregate_flags.ks

\* a column only one table holds, and a non-numeric one, are left out
C10_WitnessSkipped ==
    /\ pc = "drift_done"
    /\ ~report.raised
    /\ Len(report.feature_metrics) = 1
    /\ \E c \in DOMAIN baseline : c \notin DOMAIN current

\* C11: drift analysis never raises on data edge cases: whenever every
\* considered column is a column of the baseline, the call ends by returning
\* a DriftReport with its records and both flags, also when a column is all
\* missing on one side and when no numeric column is shared (empty records).
C11_NeverRaises ==
    (pc = "drift_done" /\ Considered \subseteq DOMAIN baseline) =>
        /\ ~report.raised
        /\ DOMAIN report.aggregate_flags = {"psi", "ks"}
        /\ Len(report.feature_metrics) = Cardinality(SharedNumeric)

\* the all-missing case does return: a record with undefined PSI and KS
C11_ReturnsOnAllMissing ==
    /\ pc = "drift_done"
    /\ ~report.raised
    /\ \E i \in 1..Len(report.feature_metrics) :
           /\ report.feature_metrics[i].psi.nan
           /\ report.feature_metrics[i].ks.nan

\* the values of a column that are not missing
Present(table, c) ==
    {table[c].values[i].v :
        i \in {k \in 1..Len(table[c].values) : ~table[c].values[k].nan}}

\* C12: undefined sentinel: PSI and KS of a column are the undefined (NaN)
\* value whenever the baseline or the current column has no value left after
\* dropping the missing ones, also when the baseline values are all equal;
\* with values on both sides both statistics are defined, and PSI is 0 when
\* the baseline values are all equal (fewer than 2 distinct bin edges).
C12_UndefinedSentinel ==
    (pc = "drift_done" /\ ~report.raised) =>
        \A i \in 1..Len(report.feature_metrics) :
            LET r == report.feature_metrics[i]
                e == Present(baseline, r.feature)
                a == Present(current, r.feature)
            IN  /\ (e = {} \/ a = {}) => (r.psi.nan /\ r.ks.nan)
                /\ (e # {} /\ a # {}) => (~r.psi.nan /\ ~r.ks.nan)
                /\ (e # {} /\ a # {} /\ Cardinality(e) < 2) => r.psi = Num(0)

\* a column whose baseline values are all equal and whose current values are
\* all missing is reported as undefined, not as 0
C12_Witness ==
    /\ pc = "drift_done"
    /\ ~report.raised
    /\ \E i \in 1..Len(report.feature_metrics) :
           LET r == report.feature_metrics[i]
           IN  /\ Cardinality(Present(baseline, r.feature)) = 1
               /\ Len(baseline[r.feature].values) = 2
               /\ Present(current, r.feature) = {}
               /\ Len(current[r.feature].values) > 0
               /\ r.psi.nan
               /\ r.ks.nan

\* the degenerate rule itself: equal baseline values, differing current ones
C12_WitnessDegenerate ==
    /\ pc = "drift_done"
    /\ ~report.raised
    /\ \E i \in 1..Len(report.feature_metrics) :
           LET r == report.feature_metrics[i]
           IN  /\ Cardinality(Present(baseline, r.feature)) = 1
               /\ Present(current, r.feature) # Present(baseline, r.feature)
               /\ Present(current, r.feature) # {}
               /\ r.psi = Num(0)
               /\ ~r.ks.nan
               /\ r.ks.num > 0

\* an empty baseline column against a current column with values
C12_WitnessEmptyBaseline ==
    /\ pc = "drift_done"
    /\ ~report.raised
    /\ \E i \in 1..Len(report.feature_metrics) :
           LET r == report.feature_metrics[i]
           IN  /\ Present(baseline, r.feature) = {}
               /\ Present(current, r.feature) # {}
               /\ r.psi.nan

----------------------------------------------------------------------------
(* Properties of ModelService.predict                                      *)

RequestUserIds == {e.userId : e \in request}

\* C13: serving boundary errors: a batch with zero or several distinct
\* userIds is rejected (400); a batch of one userId whose feature table is
\* empty is rejected (422); every other batch gets a prediction for its
\* userId; no other error outcome is observable.
C13_ServingErrors ==
    pc = "served" =>
        /\ Cardinality(RequestUserIds) # 1 => response.status = 400
        /\ (Cardinality(RequestUserIds) = 1 /\ feature_df = <<>>)
               => response.status = 422
        /\ (Cardinality(RequestUserIds) = 1 /\ feature_df # <<>>)
               => /\ response.status = 200
                  /\ response.user_id \in RequestUserIds
        /\ response.status \in {200, 400, 422}

----------------------------------------------------------------------------
(* Properties of train                                                     *)

\* the users of the cleaned log whose window meets both thresholds
KeptUsers ==
    {u \in {e.userId : e \in events} \ {"", "None"} :
        /\ Cardinality(Window(u)) >= feature_config.min_events_per_user
        /\ DistinctSessions(Window(u)) >= feature_config.min_sessions_per_user}

\* C14: insufficient data is fatal in training: when no user of the log is
\* kept (every user dropped by the thresholds, or no user at all), train
\* raises before any split, fit or artifact write, so no model, feature
\* export, evaluation set or metrics file is produced; the error is raised
\* only then.
C14_EmptyIsFatal ==
    /\ (pc # "train" /\ KeptUsers = {}) =>
           /\ pc = "no_features"
           /\ ~split_call.called
           /\ train_df = <<>>
           /\ test_df = <<>>
           /\ artifacts = {}
    /\ pc = "no_features" => KeptUsers = {}
    /\ artifacts # {} => (pc = "trained" /\ KeptUsers # {})

\* a log with events of two users, all dropped by the thresholds
C14_Witness ==
    /\ pc = "no_features"
    /\ Cardinality({e.userId : e \in events} \ {""}) = 2
    /\ artifacts = {}

\* a log with no user left after cleaning
C14_WitnessNoUser ==
    /\ pc = "no_features"
    /\ events # {}
    /\ \A e \in events : e.userId = ""

\* a run with a non-empty table that wrote its artifacts
C14_WitnessTrained ==
    /\ pc = "trained"
    /\ artifacts = ArtifactFiles

----------------------------------------------------------------------------
(* Properties of build_user_features across users                          *)

\* the row of user u as determined by u's own history and the config
RowOf(u) ==
    [userId |-> u,
     label_ts |-> LabelTime(u),
     churned |-> IF HasChurnEvent(u) THEN 1 ELSE 0,
     num_events |-> Cardinality(Window(u)),
     num_sessions |-> DistinctSessions(Window(u)),
     num_songs |-> Cardinality({e \in Window(u) : e.page = "NextSong"}),
     user_events |-> Window(u)]

\* u's own window meets both thresholds
OwnThresholds(u) ==
    /\ Cardinality(Window(u)) >= feature_config.min_events_per_user
    /\ DistinctSessions(Window(u)) >= feature_config.min_sessions_per_user

\* C16: per-user independence: the values of a user's row, and whether the
\* row is emitted, are determined by that user's own events and the config
\* alone, whatever the other users' events are; the returned set of rows is
\* the set of these per-user rows.
C16_PerUserIndependence ==
    /\ \A r \in EmittedRows : r = RowOf(r.userId)
    /\ \A u \in Visited : (\E r \in EmittedRows : r.userId = u) <=> OwnThresholds(u)
    /\ pc = "built" =>
           RowSet(feature_df) = {RowOf(u) : u \in {v \in Visited : OwnThresholds(v)}}

\* two users with different histories in one log: one churned and kept, the
\* other with a later event and a different row
C16_Witness ==
    /\ pc = "built"
    /\ Len(feature_df) = 2
    /\ feature_df[1].churned # feature_df[2].churned
    /\ feature_df[1].num_events # feature_df[2].num_events
    /\ feature_df[1].label_ts # feature_df[2].label_ts

\* one user kept while the other user of the log is dropped
C16_WitnessOtherDropped ==
    /\ pc = "built"
    /\ Len(feature_df) = 1
    /\ Cardinality(Visited) = 2

\* C17 as stated: for every row of a churned user, label_ts strictly
\* precedes the first event record used to compute the row's features.
C17_LabelPrecedesFirstUsed ==
    \A r \in EmittedRows :
        (r.churned = 1 /\ r.user_events # {}) =>
            r.label_ts < SetMin({e.ts : e \in r.user_events})

\* C17 amended: for every row of a churned user, label_ts strictly follows
\* the last event record used to compute the row's features.
C17_LabelFollowsLastUsed ==
    \A r \in EmittedRows :
        (r.churned = 1 /\ r.user_events # {}) =>
            SetMax({e.ts : e \in r.user_events}) < r.label_ts

\* a churned user's row computed from events at two different instants
C17_Witness ==
    /\ pc = "built"
    /\ \E i \in 1..Len(feature_df) :
           /\ feature_df[i].churned = 1
           /\ Cardinality({e.ts : e \in feature_df[i].user_events}) = 2

----------------------------------------------------------------------------
(* Properties of the categorical fields                                    *)

\* the value of column col in the latest event of S that has one, as a set
\* of at most one value
LastObserved(S, col) ==
    LET known == {e \in S : ~e[col].null}
    IN  IF known = {} THEN {}
        ELSE {(CHOOSE e \in known : \A y \in known : y.ts <= e.ts)[col].v}

\* C18: point-in-time categorical fields: with include_gender, gender_M and
\* gender_F tell whether the last non-null gender of the working subset
\* (latest by timestamp) is M or F; with include_level, current_level_paid
\* tells whether the last non-null level is paid; for every sequence of
\* values, also when an earlier value reappears; all 0 with no value.
C18_LastObservedValue ==
    pc = "built" =>
        \A i \in 1..Len(feature_df) :
            LET r == feature_df[i]
            IN  /\ feature_config.include_gender =>
                    /\ r.gender_M = (IF LastObserved(r.user_events, "gender") = {"M"}
                                     THEN 1 ELSE 0)
                    /\ r.gender_F = (IF LastObserved(r.user_events, "gender") = {"F"}
                                     THEN 1 ELSE 0)
                /\ feature_config.include_level =>
                    r.current_level_paid =
                        (IF LastObserved(r.user_events, "level") = {"paid"}
                         THEN 1 ELSE 0)

\* the level half of C18 alone
C18_LevelOnly ==
    pc = "built" =>
        \A i \in 1..Len(feature_df) :
            feature_config.include_level =>
                feature_df[i].current_level_paid =
                    (IF LastObserved(feature_df[i].user_events, "level") = {"paid"}
                     THEN 1 ELSE 0)

----------------------------------------------------------------------------
(* Properties of the numeric statistics                                    *)

\* the float fields of a row the claim lists
StatFields ==
    {"avg_items_per_session", "std_items_per_session", "avg_session_minutes",
     "median_session_minutes", "std_session_minutes", "event_rate_per_hour",
     "paid_event_ratio", "active_days"}

\* the log's user has events, none of them in the window, and both
\* thresholds are 0
EmptySubsetZeroThresholds ==
    /\ events # {}
    /\ Window("u1") = {}
    /\ feature_config.min_events_per_user = 0
    /\ feature_config.min_sessions_per_user = 0

\* C19: empty working subset with zero thresholds: a row is emitted for the
\* user, and every count and every float statistic of it is the 0 / 0.0
\* default, never NaN.
C19_EmptySubsetDefaults ==
    (pc = "built" /\ EmptySubsetZeroThresholds) =>
        /\ Len(feature_df) = 1
        /\ feature_df[1].num_events = 0
        /\ feature_df[1].num_sessions = 0
        /\ feature_df[1].num_songs = 0
        /\ \A k \in StatFields :
               /\ ~feature_df[1][k].nan
               /\ feature_df[1][k].num = 0

\* C19 without avg_items_per_session: the row is emitted and the other
\* statistics are the defaults
C19_OtherDefaults ==
    (pc = "built" /\ EmptySubsetZeroThresholds) =>
        /\ Len(feature_df) = 1
        /\ feature_df[1].num_events = 0
        /\ \A k \in StatFields \ {"avg_items_per_session"} :
               /\ ~feature_df[1][k].nan
               /\ feature_df[1][k].num = 0

----------------------------------------------------------------------------
(* Properties of the temporal split                                        *)

LatestLabel == SetMax({feature_df[i].label_ts : i \in 1..Len(feature_df)})

\* the users whose label_ts is the latest of the table
LatestIds ==
    {feature_df[i].userId :
        i \in {k \in 1..Len(feature_df) : feature_df[k].label_ts = LatestLabel}}

\* the users whose label_ts is below latest - temporal_holdout_days
BelowCutoffIds ==
    {feature_df[i].userId :
        i \in {k \in 1..Len(feature_df) :
                 feature_df[k].label_ts <
                     LatestLabel - split_config.temporal_holdout_days * DayMs}}

\* C20: the temporal test part is never empty: for a non-empty table and
\* temporal_holdout_days >= 0 it holds at least the rows with the latest
\* label_ts, so the stratified fallback is taken if and only if the
\* temporal train part has fewer than min_train_users rows.
C20_TemporalTestNonEmpty ==
    (split_config.method = "temporal" /\ pc \in {"split", "raised"}) =>
        /\ split_call.called <=>
               Cardinality(BelowCutoffIds) < split_config.min_train_users
        /\ ~split_call.called =>
               /\ test_df # <<>>
               /\ LatestIds \subseteq Ids(test_df)
               /\ Ids(train_df) = BelowCutoffIds

\* a temporal split kept with a one-day holdout: the test part holds the
\* latest row and an older one, the train part a row more than a day older
C20_Witness ==
    /\ pc = "split"
    /\ split_config.method = "temporal"
    /\ ~split_call.called
    /\ split_config.temporal_holdout_days = 1
    /\ Len(train_df) >= 1
    /\ Ids(test_df) # LatestIds

\* an empty train part with min_train_users = 0: no fallback
C20_WitnessEmptyTrain ==
    /\ pc = "split"
    /\ split_config.method = "temporal"
    /\ ~split_call.called
    /\ train_df = <<>>
    /\ Len(test_df) >= 2

----------------------------------------------------------------------------
(* Completeness of the emitted rows                                        *)

\* the positions of user u's rows in a list of snapshots
RowsOfUser(rows, u) == {i \in 1..Len(rows) : rows[i].userId = u}

\* a window that meets both thresholds
MeetsThresholds(w) ==
    /\ Cardinality(w) >= feature_config.min_events_per_user
    /\ DistinctSessions(w) >= feature_config.min_sessions_per_user

\* if u's window meets the thresholds, u has exactly one row in the list,
\* with the counts of the window; if u has no row, the window fails one
CompleteFor(rows, u) ==
    LET w == Window(u)
        idx == RowsOfUser(rows, u)
    IN  /\ MeetsThresholds(w) =>
               /\ Cardinality(idx) = 1
               /\ \A i \in idx :
                      /\ rows[i].num_events = Cardinality(w)
                      /\ rows[i].num_sessions = DistinctSessions(w)
        /\ idx = {} => ~MeetsThresholds(w)

\* C21: emission completeness: every user whose window has at least
\* min_events_per_user events and at least min_sessions_per_user distinct
\* sessions is in exactly one row, whose num_events is the size of the window
\* and whose num_sessions is its number of distinct sessionId values; a user
\* of the log without a row fails one of the two thresholds.
C21_EmissionComplete ==
    /\ pc = "loop" => \A u \in Visited : CompleteFor(feature_rows, u)
    /\ pc = "built" =>
           \A u \in {e.userId : e \in events} : CompleteFor(feature_df, u)

\* a user exactly at both thresholds, with two events in one session, is
\* kept beside a user dropped by the event threshold
C21_Witness ==
    /\ pc = "built"
    /\ feature_config.min_events_per_user = 2
    /\ feature_config.min_sessions_per_user = 1
    /\ Cardinality({e.userId : e \in events}) = 2
    /\ Len(feature_df) = 1
    /\ feature_df[1].num_events = 2
    /\ feature_df[1].num_sessions = 1

\* both users of a log kept when the thresholds are zero, one of them with
\* an empty window
C21_WitnessEmptyWindow ==
    /\ pc = "built"
    /\ feature_config.min_events_per_user = 0
    /\ feature_config.min_sessions_per_user = 0
    /\ Len(feature_df) = 2
    /\ \E i \in 1..2 : feature_df[i].num_events = 0

====
